---------------------------- MODULE Spec2Model ----------------------------
(***************************************************************************)
(* TinyTech: the guest cart kept in localStorage (CartService), the server *)
(* cart kept in the carts / cart_items tables (CartController and the      *)
(* update_cart_totals trigger), the login merge, the inventory table with  *)
(* the order_items trigger, and order creation (OrderController).          *)
(*                                                                         *)
(* A handler is one action: every statement it awaits, its trailing cart   *)
(* refresh included, happens in the step.  A handler is written as an      *)
(* operator from the state it reads to the state it leaves and the error   *)
(* it throws ("" when it returns), so that a handler calling another one   *)
(* is an operator applied to the result of another.                        *)
(*                                                                         *)
(* The hosted database is modelled by its tables, their UNIQUE             *)
(* constraints, the generated column, the triggers and the carts           *)
(* row-level policy.  Which columns a select names is not modelled, and    *)
(* the admin-role policies on products, inventory and orders are not       *)
(* modelled (the caller is taken to hold the role the statement needs).    *)
(* Money is in integer cents.                                              *)
(*                                                                         *)
(* Where two calls run at once (two browser tabs of one session), a        *)
(* handler is cut at its awaits instead: calls[t] holds what the call of   *)
(* tab t has read and the request it will send next, each request is one   *)
(* step on the tables (a statement and its triggers are one transaction),  *)
(* and the steps of the two tabs interleave freely.  Each of those         *)
(* specifications follows the two calls from their start to their return.  *)
(***************************************************************************)
EXTENDS Integers, Sequences, FiniteSets, TLC

\* ------------------------------------------------------------------ bounds
NumProducts == 2
MaxQty == 2          \* largest quantity argument and largest stored line quantity
MaxNeg == 1          \* quantity arguments go down to -MaxNeg
MinLineQty == 1      \* stored line quantities are followed down to -MinLineQty
MaxTicks == 2        \* how often the clock advances
TickStep == 30       \* days the clock advances by in one step
MaxStock == 2        \* largest inventory quantity and reserved the model follows
MaxDebt == 1         \* quantity and reserved go down to -MaxDebt
MaxLedger == 2       \* most inventory_transactions rows
MaxOrders == 2       \* most orders rows
MaxOrderNumber == 3  \* largest order number the model follows
MaxLines == 2        \* most lines in one createOrder call
NumStockProducts == 1
MaxPrice == 2        \* product prices are 1..MaxPrice
MaxDiscounts == 2    \* discounts rows
MaxUsage == 2        \* discount_usage rows \* products the inventory and order handlers are called on

\* --------------------------------------------------------------- constants
CART_EXPIRY_DAYS == 30

Null == "null"
SessionId == "s1"
Users == {"u1"}
Products == 1..NumProducts
QtyArgs == (0 - MaxNeg)..MaxQty

VARIABLES
  now,            \* new Date(), in days
  guest,          \* localStorage["guest_cart"]
  currentUser,    \* supabase.auth.getUser(): Null or a user id
  products,       \* products table: product id -> [price, status]
  carts,          \* carts table, a set of rows
  cart_items,     \* cart_items table, a set of rows
  inventory,      \* inventory table: product id -> row (present = FALSE: no row)
  inventory_transactions, \* inventory_transactions table, in insertion order
  orders,         \* orders table, a set of rows
  order_items,    \* order_items table, a set of rows
  discounts,      \* discounts table, a set of rows
  discount_usage, \* discount_usage table, a set of rows
  calls,          \* the calls in flight, one per browser tab: where each
                  \* stands between its awaits and what it has read so far
  ret             \* the last handler's name, its arguments and what it threw

vars == <<now, guest, currentUser, products, carts, cart_items, inventory,
          inventory_transactions, orders, order_items,
          discounts, discount_usage, calls, ret>>

guestVars == <<now, guest>>
cartVars == <<carts, cart_items>>
stockVars == <<inventory, inventory_transactions, orders, order_items,
               discounts, discount_usage>>

\* ------------------------------------------------------------------ helpers
RECURSIVE SumOver(_, _)
\* sum of f[r] over the rows r of the finite set S
SumOver(S, f) ==
  IF S = {} THEN 0
  ELSE LET r == CHOOSE x \in S : TRUE IN f[r] + SumOver(S \ {r}, f)

\* smallest positive id no row of S carries: a fresh uuid
FreshId(S) == CHOOSE n \in 1..(Cardinality(S) + 1) : \A r \in S : r.id # n

\* FindIndexByProduct that never finds the line
FindIndexByProductNone(items, p) == 0

\* Array.prototype.findIndex on product_id: first index, 0 when none
FindIndexByProduct(items, p) ==
  IF \E i \in 1..Len(items) : items[i].product_id = p
  THEN CHOOSE i \in 1..Len(items) :
         /\ items[i].product_id = p
         /\ \A j \in 1..(i - 1) : items[j].product_id # p
  ELSE 0

\* Array.prototype.findIndex on id: first index, 0 when none
FindIndexById(items, id) ==
  IF \E i \in 1..Len(items) : items[i].id = id
  THEN CHOOSE i \in 1..Len(items) :
         /\ items[i].id = id
         /\ \A j \in 1..(i - 1) : items[j].id # id
  ELSE 0

SeqToSet(s) == {s[i] : i \in 1..Len(s)}

\* ev: the cartUpdated events the handler dispatched before it returned
Ret(op, a, b, err) == [op |-> op, a |-> a, b |-> b, err |-> err, ev |-> 0]

\* ------------------------------------------------- CartService: guest cart
\* localStorage.getItem returns null
NoCart == [present |-> FALSE, items |-> <<>>, expiry |-> 0]

\* saveGuestCart: the whole list is rewritten with a new expiry
saveGuestCart(items, t) ==
  [present |-> TRUE, items |-> items, expiry |-> t + CART_EXPIRY_DAYS]

\* clearGuestCart: localStorage.removeItem
clearGuestCart == NoCart

\* getGuestCart that leaves an expired blob in localStorage
getGuestCartKeepsExpired(blob, t) ==
  IF ~blob.present THEN [items |-> <<>>, blob |-> blob]
  ELSE IF t > blob.expiry THEN [items |-> <<>>, blob |-> blob]
  ELSE [items |-> blob.items, blob |-> blob]

\* getGuestCart: the list it returns and the blob it leaves behind
getGuestCart(blob, t) ==
  IF ~blob.present THEN [items |-> <<>>, blob |-> blob]
  ELSE IF t > blob.expiry THEN [items |-> <<>>, blob |-> clearGuestCart]
  ELSE [items |-> blob.items, blob |-> blob]

\* the id of a new guest line: guest_<time>_<random>, unique in the cart
GuestItemId(items) == FreshId(SeqToSet(items))

addToGuestCart(blob, t, productId, quantity, price) ==
  LET cart == getGuestCart(blob, t).items
      i == FindIndexByProduct(cart, productId)
  IN IF i > 0
     THEN saveGuestCart([cart EXCEPT ![i].quantity = @ + quantity], t)
     ELSE saveGuestCart(Append(cart, [id |-> GuestItemId(cart),
                                      product_id |-> productId,
                                      quantity |-> quantity,
                                      price |-> price]), t)

removeFromGuestCart(blob, t, itemId) ==
  LET cart == getGuestCart(blob, t).items
  IN saveGuestCart(SelectSeq(cart, LAMBDA it : it.id # itemId), t)

\* dispatchCartUpdate: one cartUpdated event more on window
dispatchCartUpdate(n) == n + 1

\* the events getGuestCart dispatches: clearGuestCart's, when it discards
getGuestCartEvents(blob, t) ==
  IF blob.present /\ t > blob.expiry THEN dispatchCartUpdate(0) ELSE 0

\* the events addToGuestCart dispatches
addToGuestCartEvents(blob, t) == dispatchCartUpdate(getGuestCartEvents(blob, t))

\* the events removeFromGuestCart dispatches
removeFromGuestCartEvents(blob, t) ==
  dispatchCartUpdate(getGuestCartEvents(blob, t))

\* an updateGuestCartItem that dispatches whether or not it found the line
updateGuestCartItemEventsAlways(blob, t, itemId, quantity) ==
  dispatchCartUpdate(getGuestCartEvents(blob, t))

\* the events updateGuestCartItem dispatches
updateGuestCartItemEvents(blob, t, itemId, quantity) ==
  IF quantity <= 0 THEN removeFromGuestCartEvents(blob, t)
  ELSE IF FindIndexById(getGuestCart(blob, t).items, itemId) > 0
  THEN dispatchCartUpdate(getGuestCartEvents(blob, t))
  ELSE getGuestCartEvents(blob, t)

\* updateGuestCartItem that removes only below zero
updateGuestCartItemBelowZero(blob, t, itemId, quantity) ==
  IF quantity < 0 THEN removeFromGuestCart(blob, t, itemId)
  ELSE LET g == getGuestCart(blob, t)
           i == FindIndexById(g.items, itemId)
       IN IF i > 0
          THEN saveGuestCart([g.items EXCEPT ![i].quantity = quantity], t)
          ELSE g.blob

\* CartService.updateGuestCartItem
updateGuestCartItem(blob, t, itemId, quantity) ==
  IF quantity <= 0 THEN removeFromGuestCart(blob, t, itemId)
  ELSE LET g == getGuestCart(blob, t)
           i == FindIndexById(g.items, itemId)
       IN IF i > 0
          THEN saveGuestCart([g.items EXCEPT ![i].quantity = quantity], t)
          ELSE g.blob


\* ------------------------------------------------ carts, cart_items tables
\* carts policy "Users can manage own carts": the rows a caller sees
CartVisible(c, uid) ==
  \/ (uid # Null /\ c.user_id = uid)
  \/ (c.user_id = Null /\ c.session_id # Null)

ItemsOf(items, cid) == {it \in items : it.cart_id = cid}

\* update_cart_totals that sets the subtotal and leaves total_amount
update_cart_totals_SubtotalOnly(db, cid) ==
  LET s == SumOver(ItemsOf(db.items, cid), [it \in db.items |-> it.total_price])
  IN [db EXCEPT !.carts =
        {IF c.id = cid THEN [c EXCEPT !.subtotal = s] ELSE c : c \in db.carts}]

\* update_cart_totals: subtotal and total_amount of cart cid from its lines
update_cart_totals(db, cid) ==
  LET s == SumOver(ItemsOf(db.items, cid), [it \in db.items |-> it.total_price])
  IN [db EXCEPT !.carts =
        {IF c.id = cid
         THEN [c EXCEPT !.subtotal = s,
                        !.total_amount = s + c.tax_amount + c.shipping_amount
                                           - c.discount_amount]
         ELSE c : c \in db.carts}]

\* INSERT INTO cart_items, UNIQUE(cart_id, product_id), then the trigger
InsertCartItem(db, row) ==
  IF \E it \in db.items : it.cart_id = row.cart_id /\ it.product_id = row.product_id
  THEN [db |-> db, err |-> "duplicate key"]
  ELSE [db |-> update_cart_totals([db EXCEPT !.items = @ \cup {row}], row.cart_id),
        err |-> ""]

\* UpdateCartItemRow with the total_price of the update lost
UpdateCartItemRowKeepsTotal(db, id, quantity, total_price) ==
  LET old == CHOOSE it \in db.items : it.id = id
      new == [old EXCEPT !.quantity = quantity]
  IN [db EXCEPT !.items = (@ \ {old}) \cup {new}]

\* UPDATE cart_items SET quantity, total_price WHERE id, then the trigger
UpdateCartItemRow(db, id, quantity, total_price) ==
  LET old == CHOOSE it \in db.items : it.id = id
      new == [old EXCEPT !.quantity = quantity, !.total_price = total_price]
  IN update_cart_totals([db EXCEPT !.items = (@ \ {old}) \cup {new}], old.cart_id)

\* DELETE FROM cart_items WHERE the row is in S, the trigger once per row
RECURSIVE DeleteCartItems(_, _)
DeleteCartItems(db, S) ==
  IF S = {} THEN db
  ELSE LET it == CHOOSE x \in S : TRUE
       IN DeleteCartItems(
            update_cart_totals([db EXCEPT !.items = @ \ {it}], it.cart_id),
            S \ {it})

\* DELETE FROM carts WHERE the row is in S: cart_items go by ON DELETE CASCADE
DeleteCarts(db, S) ==
  LET gone == {c.id : c \in S}
  IN [carts |-> db.carts \ S,
      items |-> {it \in db.items : it.cart_id \notin gone}]

\* ------------------------------------------------ CartController, database
\* the cart the query of getOrCreateCart selects: .single() wants one row
FoundCarts(db, uid) ==
  {c \in db.carts : /\ CartVisible(c, uid)
                    /\ IF uid # Null THEN c.user_id = uid
                                     ELSE c.session_id = SessionId}

NewCartRow(db, uid) ==
  [id |-> FreshId(db.carts), user_id |-> uid, session_id |-> SessionId,
   subtotal |-> 0, tax_amount |-> 0, shipping_amount |-> 0,
   discount_amount |-> 0, total_amount |-> 0]

\* UNIQUE(user_id), UNIQUE(session_id); NULLs never collide
CartUniqueOk(db, row) ==
  \A c \in db.carts :
    /\ (row.user_id # Null => c.user_id # row.user_id)
    /\ (row.session_id # Null => c.session_id # row.session_id)

getOrCreateCart(db, uid) ==
  IF Cardinality(FoundCarts(db, uid)) = 1
  THEN [db |-> db, err |-> "", cart |-> (CHOOSE c \in FoundCarts(db, uid) : TRUE).id]
  ELSE LET row == NewCartRow(db, uid)
       IN IF CartUniqueOk(db, row)
          THEN [db |-> [db EXCEPT !.carts = @ \cup {row}], err |-> "", cart |-> row.id]
          ELSE [db |-> db, err |-> "duplicate key", cart |-> 0]

\* the rows of cart_items a caller sees
VisibleItems(db, uid) ==
  {it \in db.items : \E c \in db.carts : c.id = it.cart_id /\ CartVisible(c, uid)}

\* a stock check that lets every quantity through
InsufficientInventoryNever(p, quantity) == FALSE

\* product.inventory?.available !== undefined && available < quantity
InsufficientInventory(p, quantity) ==
  inventory[p].present /\ inventory[p].available < quantity

removeCartItem(db, uid, cartItemId) ==
  LET d == DeleteCartItems(db, {it \in VisibleItems(db, uid) : it.id = cartItemId})
      r == getOrCreateCart(d, uid)
  IN [db |-> r.db, err |-> r.err]

updateCartItem(db, uid, cartItemId, quantity) ==
  IF quantity <= 0 THEN removeCartItem(db, uid, cartItemId)
  ELSE IF ~\E it \in VisibleItems(db, uid) : it.id = cartItemId
  THEN [db |-> db, err |-> "Cart item not found"]
  ELSE LET cur == CHOOSE it \in VisibleItems(db, uid) : it.id = cartItemId
       IN IF InsufficientInventory(cur.product_id, quantity)
          THEN [db |-> db, err |-> "Insufficient inventory"]
          ELSE LET d == UpdateCartItemRow(db, cartItemId, quantity,
                                          cur.unit_price * quantity)
                   r == getOrCreateCart(d, uid)
               IN [db |-> r.db, err |-> r.err]

addToCart(db, uid, productId, quantity) ==
  LET c == getOrCreateCart(db, uid)
      mine == {it \in ItemsOf(c.db.items, c.cart) : it.product_id = productId}
  IN IF c.err # "" THEN [db |-> c.db, err |-> c.err]
     ELSE IF mine # {}
     THEN LET existingItem == CHOOSE it \in mine : TRUE
          IN updateCartItem(c.db, uid, existingItem.id,
                            existingItem.quantity + quantity)
     ELSE IF products[productId].status # "active"
     THEN [db |-> c.db, err |-> "Product is not available"]
     ELSE IF InsufficientInventory(productId, quantity)
     THEN [db |-> c.db, err |-> "Insufficient inventory"]
     ELSE LET ins == InsertCartItem(c.db,
                       [id |-> FreshId(c.db.items), cart_id |-> c.cart,
                        product_id |-> productId, quantity |-> quantity,
                        unit_price |-> products[productId].price,
                        total_price |-> products[productId].price * quantity])
              r == getOrCreateCart(ins.db, uid)
          IN IF ins.err # "" THEN ins ELSE [db |-> r.db, err |-> r.err]


\* ------------------------------------------------------- the login merge
\* the static methods class ProductController defines
ProductControllerMethods ==
  {"createProduct", "getAllProducts", "getProductById", "updateProduct",
   "deleteProduct", "getProductsByCategory", "getFeaturedProducts",
   "searchProducts", "generateSlug", "uploadProductImage",
   "getProductAnalytics", "getProductWithSpecifications", "getRelatedProducts",
   "getProductsByBrand", "getAllBrands", "advancedSearch", "trackProductView",
   "getProductAvailability"}

NoProduct == 0

\* the product field one guest line gets in getGuestCartWithProducts:
\* ProductController.getById(item.product_id) inside try, and in the catch
\* the stored line, whose product is null, is returned as it is
ItemProduct(it) ==
  IF "getById" \in ProductControllerMethods THEN it.product_id ELSE NoProduct

\* calculateSubtotal
calculateSubtotal(items) ==
  SumOver(1..Len(items), [i \in 1..Len(items) |-> items[i].price * items[i].quantity])

\* getGuestCartWithProducts: null for an empty list, else the lines whose
\* product is not null; the read may discard an expired blob
getGuestCartWithProducts(blob, t) ==
  LET g == getGuestCart(blob, t)
      validItems == SelectSeq(g.items, LAMBDA it : ItemProduct(it) # NoProduct)
  IN [isNull |-> Len(g.items) = 0, items |-> validItems,
      subtotal |-> calculateSubtotal(validItems), blob |-> g.blob]

\* the rows of S as a list, by ascending id
RECURSIVE RowsById(_)
RowsById(S) ==
  IF S = {} THEN <<>>
  ELSE LET r == CHOOSE x \in S : \A y \in S : x.id <= y.id
       IN <<r>> \o RowsById(S \ {r})

\* getAuthenticatedCart: the user's cart rows (.single(): 0 rows give null)
AuthenticatedCart(db, uid) ==
  {c \in db.carts : CartVisible(c, uid) /\ c.user_id = uid}

\* the loop of mergeGuestCartWithUserCart over the guest lines from index i
RECURSIVE MergeLines(_, _, _)
MergeLines(mergedItems, guestCart, i) ==
  IF i > Len(guestCart) THEN mergedItems
  ELSE LET k == FindIndexByProduct(mergedItems, guestCart[i].product_id)
       IN MergeLines(
            IF k > 0
            THEN [mergedItems EXCEPT ![k].quantity = @ + guestCart[i].quantity]
            ELSE Append(mergedItems, [id |-> 0,
                                      product_id |-> guestCart[i].product_id,
                                      quantity |-> guestCart[i].quantity]),
            guestCart, i + 1)

\* mergeGuestCartWithUserCart: the merged list and the blob it leaves
mergeGuestCartWithUserCart(blob, t, userItems) ==
  LET g == getGuestCart(blob, t)
  IN IF Len(g.items) = 0 THEN [items |-> userItems, blob |-> g.blob]
     ELSE [items |-> MergeLines(userItems, g.items, 1), blob |-> clearGuestCart]

\* the persisting loops of mergeGuestCartOnLogin from index i: a line without
\* an id goes through addToCart, one with an id through updateCartItem, and
\* the first throw ends the loop
RECURSIVE PersistLines(_, _, _, _)
PersistLines(db, uid, items, i) ==
  IF i > Len(items) THEN [db |-> db, err |-> ""]
  ELSE LET r == IF items[i].id = 0
                THEN addToCart(db, uid, items[i].product_id, items[i].quantity)
                ELSE updateCartItem(db, uid, items[i].id, items[i].quantity)
       IN IF r.err # "" THEN r ELSE PersistLines(r.db, uid, items, i + 1)

mergeGuestCartOnLogin(db, blob, t, uid) ==
  IF uid = Null THEN [db |-> db, blob |-> blob, err |-> ""]
  ELSE
    LET guestCart == getGuestCartWithProducts(blob, t)
        userCarts == AuthenticatedCart(db, uid)
    IN IF guestCart.isNull \/ Len(guestCart.items) = 0
       THEN [db |-> db, blob |-> guestCart.blob, err |-> ""]
       ELSE IF userCarts # {}
       THEN LET userCart == CHOOSE c \in userCarts : TRUE
                userItems == [i \in DOMAIN RowsById(ItemsOf(db.items, userCart.id)) |->
                               LET it == RowsById(ItemsOf(db.items, userCart.id))[i]
                               IN [id |-> it.id, product_id |-> it.product_id,
                                   quantity |-> it.quantity]]
                m == mergeGuestCartWithUserCart(guestCart.blob, t, userItems)
                r == PersistLines(db, uid, m.items, 1)
            IN [db |-> r.db,
                blob |-> IF r.err = "" THEN clearGuestCart ELSE m.blob,
                err |-> r.err]
       ELSE LET row == [id |-> FreshId(db.carts), user_id |-> uid,
                        session_id |-> Null, subtotal |-> guestCart.subtotal,
                        tax_amount |-> 0, shipping_amount |-> 0,
                        discount_amount |-> 0, total_amount |-> 0]
            IN IF ~CartUniqueOk(db, row)
               THEN [db |-> db, blob |-> guestCart.blob, err |-> "duplicate key"]
               ELSE LET r == PersistLines([db EXCEPT !.carts = @ \cup {row}], uid,
                               [i \in DOMAIN guestCart.items |->
                                  [id |-> 0,
                                   product_id |-> guestCart.items[i].product_id,
                                   quantity |-> guestCart.items[i].quantity]], 1)
                    IN [db |-> r.db,
                        blob |-> IF r.err = "" THEN clearGuestCart
                                 ELSE guestCart.blob,
                        err |-> r.err]


\* ------------------------------------------------------------------ state
DB == [carts |-> carts, items |-> cart_items]

NoInventory == [present |-> FALSE, quantity |-> 0, reserved |-> 0, available |-> 0]

\* an inventory row; available is GENERATED ALWAYS AS (quantity - reserved)
InventoryRow(quantity, reserved) ==
  [present |-> TRUE, quantity |-> quantity, reserved |-> reserved,
   available |-> quantity - reserved]

\* two browser tabs, each running one handler at a time
Tabs == {1, 2}

\* a tab with no call in flight; a call keeps the handler's name, the await it
\* stands before, its arguments and the values it has read (a, b, c, d), its
\* loop index i and the list it works through
NoCall == [op |-> "", pc |-> "idle", a |-> 0, b |-> 0, c |-> 0, d |-> 0,
           i |-> 0, items |-> <<>>, err |-> ""]

\* a cart holds at most one line per product, so ids stay within 1..NumProducts
ItemIds == 1..NumProducts

\* the quantities the model follows: MaxQty and MinLineQty cap the counters
QtyInRange(blob, items) ==
  /\ \A i \in 1..Len(blob.items) :
       blob.items[i].quantity \in (0 - MinLineQty)..MaxQty
  /\ \A it \in items : it.quantity \in (0 - MinLineQty)..MaxQty

Init ==
  /\ now = 0
  /\ guest = NoCart
  /\ currentUser = Null
  /\ products = [p \in Products |-> [price |-> p, status |-> "active"]]
  /\ carts = {}
  /\ cart_items = {}
  /\ inventory = [p \in Products |-> InventoryRow(p, 0)]
  /\ inventory_transactions = <<>>
  /\ orders = {}
  /\ order_items = {}
  /\ discounts = {}
  /\ discount_usage = {}
  /\ calls = [t \in Tabs |-> NoCall]
  /\ ret = Ret("init", 0, 0, "")

\* ---------------------------------------------------------------- actions
\* time passes
Tick ==
  /\ now + TickStep <= MaxTicks * TickStep
  /\ now' = now + TickStep
  /\ ret' = Ret("tick", 0, 0, "")
  /\ UNCHANGED <<calls, guest, currentUser, products, cartVars, stockVars>>

\* CartService.getGuestCart, as the cart badge and the cart page call it;
\* ret.a: the length of the list returned, ret.b: 1 when the blob was
\* discarded (clearGuestCart dispatches cartUpdated)
GetGuestCart ==
  LET g == getGuestCart(guest, now)
  IN /\ guest' = g.blob
     /\ ret' = [Ret("getGuestCart", Len(g.items),
                    IF g.blob # guest THEN 1 ELSE 0, "")
               EXCEPT !.ev = getGuestCartEvents(guest, now)]
     /\ UNCHANGED <<calls, now, currentUser, products, cartVars, stockVars>>

\* what a CartController handler on the database leaves
CartResult(op, a, b, r) ==
  /\ carts' = r.db.carts
  /\ cart_items' = r.db.items
  /\ ret' = Ret(op, a, b, r.err)
  /\ QtyInRange(guest, r.db.items)
  /\ UNCHANGED <<calls, now, guest, currentUser, products, stockVars>>

\* what a CartService handler on localStorage leaves
GuestResult(op, a, b, blob, ev) ==
  /\ guest' = blob
  /\ ret' = [Ret(op, a, b, "") EXCEPT !.ev = ev]
  /\ QtyInRange(blob, cart_items)
  /\ UNCHANGED <<calls, now, currentUser, products, cartVars, stockVars>>

\* CartController.addItem
AddItem(p, q) ==
  IF currentUser # Null
  THEN CartResult("addItem", p, q, addToCart(DB, currentUser, p, q))
  ELSE GuestResult("addItem", p, q,
                   addToGuestCart(guest, now, p, q, products[p].price),
                   addToGuestCartEvents(guest, now))

\* CartController.updateItemQuantity
UpdateItemQuantity(id, q) ==
  IF currentUser # Null
  THEN CartResult("updateItemQuantity", id, q, updateCartItem(DB, currentUser, id, q))
  ELSE GuestResult("updateItemQuantity", id, q,
                   updateGuestCartItem(guest, now, id, q),
                   updateGuestCartItemEvents(guest, now, id, q))

\* CartController.removeItem
RemoveItem(id) ==
  IF currentUser # Null
  THEN CartResult("removeItem", id, 0, removeCartItem(DB, currentUser, id))
  ELSE GuestResult("removeItem", id, 0, removeFromGuestCart(guest, now, id),
                   removeFromGuestCartEvents(guest, now))

\* CartController.clearCart: the class defines the static method twice and the
\* later definition (the dispatcher) is the one the class keeps, so for a
\* signed-in user this.clearCart() is the dispatcher again and the call
\* never returns; for a guest it clears localStorage
ClearCart ==
  IF currentUser # Null
  THEN /\ ret' = Ret("clearCart", 0, 0, "no return")
       /\ UNCHANGED <<calls, guestVars, currentUser, products, cartVars, stockVars>>
  ELSE GuestResult("clearCart", 0, 0, clearGuestCart, dispatchCartUpdate(0))

\* a signIn that returns the user without currentUser.set
signInKeepsState(u, cur) == [user |-> cur, returned |-> 1]

\* UserController.signIn with good credentials: currentUser.set, then the
\* merge inside a try whose catch only logs what the merge threw, then
\* return result.user; user: the current-user state it leaves, returned = 1:
\* the caller gets the user
signIn(u, cur) == [user |-> u, returned |-> 1]

\* ret.a: 1 when signIn returned the user, ret.err: what the merge threw
SignIn(u) ==
  LET m == mergeGuestCartOnLogin(DB, guest, now, u)
  IN /\ currentUser = Null
     /\ currentUser' = signIn(u, currentUser).user
     /\ carts' = m.db.carts
     /\ cart_items' = m.db.items
     /\ guest' = m.blob
     /\ ret' = [Ret("signIn", signIn(u, currentUser).returned, 0, m.err)
               EXCEPT !.ev = getGuestCartEvents(guest, now)
                             + IF guest' # getGuestCart(guest, now).blob
                               THEN dispatchCartUpdate(0) ELSE 0]
     /\ QtyInRange(guest', cart_items')
     /\ UNCHANGED <<calls, now, products, stockVars>>

\* UserController.signOut
SignOut ==
  /\ currentUser # Null
  /\ currentUser' = Null
  /\ ret' = Ret("signOut", 0, 0, "")
  /\ UNCHANGED <<calls, now, guest, products, cartVars, stockVars>>

Next ==
  \/ Tick
  \/ GetGuestCart
  \/ \E p \in Products, q \in QtyArgs : AddItem(p, q)
  \/ \E id \in ItemIds, q \in QtyArgs : UpdateItemQuantity(id, q)
  \/ \E id \in ItemIds : RemoveItem(id)
  \/ ClearCart
  \/ \E u \in Users : SignIn(u)
  \/ SignOut

Spec == Init /\ [][Next]_vars


\* ------------------------------- inventory, orders and order_items tables
Stock == [inv |-> inventory, tx |-> inventory_transactions,
          orders |-> orders, oitems |-> order_items,
          disc |-> discounts, usage |-> discount_usage]

\* SetInventory with available left as it was stored
SetInventoryStale(row, quantity, reserved) ==
  [row EXCEPT !.quantity = quantity, !.reserved = reserved]

\* UPDATE inventory SET quantity, reserved: the generated column follows
SetInventory(row, quantity, reserved) == InventoryRow(quantity, reserved)

\* INSERT INTO inventory_transactions
LogTransaction(tx, p, type, quantity, reference_type) ==
  Append(tx, [product_id |-> p, type |-> type, quantity |-> quantity,
              reference_type |-> reference_type])

\* UPDATE inventory SET reserved = reserved + d WHERE product_id = p
AddReserved(inv, p, d) ==
  IF inv[p].present
  THEN [inv EXCEPT ![p] = SetInventory(@, @.quantity, @.reserved + d)]
  ELSE inv

\* update_inventory_on_order, TG_OP = 'INSERT'
OrderItemInserted(st, new) ==
  [st EXCEPT !.inv = AddReserved(@, new.product_id, new.quantity),
             !.tx = LogTransaction(@, new.product_id, "reserved", new.quantity,
                                   "order")]

\* update_inventory_on_order, TG_OP = 'UPDATE'
OrderItemUpdated(st, old, new) ==
  IF new.quantity # old.quantity
  THEN [st EXCEPT !.inv = AddReserved(@, new.product_id,
                                      new.quantity - old.quantity),
                  !.tx = LogTransaction(@, new.product_id, "adjustment",
                                        new.quantity - old.quantity, "order")]
  ELSE st

\* update_inventory_on_order, TG_OP = 'DELETE'
OrderItemDeleted(st, old) ==
  [st EXCEPT !.inv = AddReserved(@, old.product_id, 0 - old.quantity),
             !.tx = LogTransaction(@, old.product_id, "unreserved", old.quantity,
                                   "order")]

\* INSERT INTO order_items, then the trigger
InsertOrderItem(st, row) ==
  OrderItemInserted([st EXCEPT !.oitems = @ \cup {row}], row)

\* DELETE FROM order_items WHERE the row is in S, the trigger once per row
RECURSIVE DeleteOrderItems(_, _)
DeleteOrderItems(st, S) ==
  IF S = {} THEN st
  ELSE LET r == CHOOSE x \in S : \A y \in S : x.id <= y.id
       IN DeleteOrderItems(OrderItemDeleted([st EXCEPT !.oitems = @ \ {r}], r),
                           S \ {r})

\* generate_order_number: MAX of the numbers after 'OR', plus one
generate_order_number(os) ==
  IF os = {} THEN 1
  ELSE (CHOOSE n \in {o.order_number : o \in os} :
          \A o \in os : o.order_number <= n) + 1

\* ---------------------------------------------------------- OrderController
\* the loop of createOrder over orderData.items from index i
RECURSIVE CreateOrderItems(_, _, _, _)
CreateOrderItems(st, orderId, items, i) ==
  IF i > Len(items) THEN st
  ELSE CreateOrderItems(
         InsertOrderItem(st, [id |-> FreshId(st.oitems), order_id |-> orderId,
                              product_id |-> items[i].product_id,
                              quantity |-> items[i].quantity]),
         orderId, items, i + 1)

\* createOrder on an orders table without UNIQUE(order_number)
createOrderNoUnique(st, items, rpcOk, fallback) ==
  LET orderNumber == IF rpcOk THEN generate_order_number(st.orders) ELSE fallback
      order == [id |-> FreshId(st.orders), order_number |-> orderNumber]
  IN [st |-> CreateOrderItems([st EXCEPT !.orders = @ \cup {order}],
                              order.id, items, 1),
      err |-> ""]

\* createOrder; rpcOk: the generate_order_number rpc answers, else the number
\* is the fallback "OR" + Date.now().toString().slice(-6)
createOrder(st, items, rpcOk, fallback) ==
  LET orderNumber == IF rpcOk THEN generate_order_number(st.orders) ELSE fallback
      order == [id |-> FreshId(st.orders), order_number |-> orderNumber]
  IN IF \E o \in st.orders : o.order_number = orderNumber
     THEN [st |-> st, err |-> "duplicate key"]
     ELSE [st |-> CreateOrderItems([st EXCEPT !.orders = @ \cup {order}],
                                   order.id, items, 1),
           err |-> ""]

\* update_discount_usage, TG_OP = 'INSERT'
DiscountUsageInserted(st, new) ==
  [st EXCEPT !.disc = {IF d.id = new.discount_id
                       THEN [d EXCEPT !.used_count = @ + 1] ELSE d : d \in @}]

\* update_discount_usage without its DELETE branch
DiscountUsageDeletedKeepsCount(st, old) == st

\* update_discount_usage, TG_OP = 'DELETE'
DiscountUsageDeleted(st, old) ==
  [st EXCEPT !.disc = {IF d.id = old.discount_id
                       THEN [d EXCEPT !.used_count = @ - 1] ELSE d : d \in @}]

\* DELETE FROM discount_usage WHERE the row is in S, the trigger once per row
RECURSIVE DeleteDiscountUsage(_, _)
DeleteDiscountUsage(st, S) ==
  IF S = {} THEN st
  ELSE LET r == CHOOSE x \in S : \A y \in S : x.id <= y.id
       IN DeleteDiscountUsage(
            DiscountUsageDeleted([st EXCEPT !.usage = @ \ {r}], r), S \ {r})

\* deleteOrder: order_items and discount_usage go by ON DELETE CASCADE, each
\* row firing its trigger
deleteOrder(st, orderId) ==
  DeleteDiscountUsage(
    DeleteOrderItems([st EXCEPT !.orders = {o \in @ : o.id # orderId}],
                     {r \in st.oitems : r.order_id = orderId}),
    {r \in st.usage : r.order_id = orderId})

\* ------------------------------------------------------ InventoryController
\* the loop of adjustInventory over the adjustments from index i
RECURSIVE adjustInventory(_, _, _)
adjustInventory(st, adjustments, i) ==
  IF i > Len(adjustments) THEN [st |-> st, err |-> ""]
  ELSE LET a == adjustments[i]
           row == st.inv[a.product_id]
       IN IF ~row.present THEN [st |-> st, err |-> "no rows"]
          ELSE adjustInventory(
                 [st EXCEPT
                    !.inv[a.product_id] =
                       SetInventory(row, row.quantity + a.quantity_change,
                                    row.reserved),
                    !.tx = LogTransaction(@, a.product_id, a.type,
                             IF a.quantity_change < 0 THEN 0 - a.quantity_change
                             ELSE a.quantity_change,
                             "adjustment")],
                 adjustments, i + 1)

stockIn(st, p, quantity) ==
  adjustInventory(st, <<[product_id |-> p, quantity_change |-> quantity,
                         type |-> "in"]>>, 1)

stockOut(st, p, quantity) ==
  adjustInventory(st, <<[product_id |-> p, quantity_change |-> 0 - quantity,
                         type |-> "out"]>>, 1)

\* createInventory: UNIQUE(product_id); reserved: inventoryData.reserved || 0
createInventory(st, p, quantity, reserved) ==
  IF st.inv[p].present THEN [st |-> st, err |-> "duplicate key"]
  ELSE [st |-> [st EXCEPT !.inv[p] = InventoryRow(quantity, reserved)], err |-> ""]

\* updateInventory with quantity and reserved in updateData
updateInventory(st, p, quantity, reserved) ==
  IF ~st.inv[p].present THEN [st |-> st, err |-> "no rows"]
  ELSE [st |-> [st EXCEPT !.inv[p] = SetInventory(@, quantity, reserved)],
        err |-> ""]

\* deleteInventory
deleteInventory(st, p) == [st EXCEPT !.inv[p] = NoInventory]

\* CartController.convertToOrder
convertToOrder(db, uid) ==
  LET c == getOrCreateCart(db, uid)
  IN IF c.err # "" THEN [db |-> c.db, err |-> c.err]
     ELSE IF ItemsOf(c.db.items, c.cart) = {}
     THEN [db |-> c.db, err |-> "Cart is empty"]
     ELSE [db |-> c.db, err |-> ""]

\* ---------------------------------------------------------- stock actions
StockRange == (0 - MaxDebt)..MaxStock
StockProducts == 1..NumStockProducts

StockInRange(st) ==
  /\ \A p \in Products : /\ st.inv[p].quantity \in StockRange
                         /\ st.inv[p].reserved \in StockRange
  /\ Len(st.tx) <= MaxLedger
  /\ Cardinality(st.orders) <= MaxOrders
  /\ \A o \in st.orders : o.order_number <= MaxOrderNumber
  /\ Cardinality(st.disc) <= MaxDiscounts
  /\ Cardinality(st.usage) <= MaxUsage

\* what a handler on the inventory and order tables leaves
StockResult(op, a, st, err) ==
  /\ inventory' = st.inv
  /\ inventory_transactions' = st.tx
  /\ orders' = st.orders
  /\ order_items' = st.oitems
  /\ discounts' = st.disc
  /\ discount_usage' = st.usage
  /\ ret' = Ret(op, a, 0, err)
  /\ StockInRange(st)
  /\ UNCHANGED <<calls, guestVars, currentUser, products, cartVars>>

\* the order lines a createOrder call may carry
OrderLine == [product_id : StockProducts, quantity : 1..MaxQty]
OrderLines == UNION {[1..n -> OrderLine] : n \in 0..MaxLines}

CreateOrder(items, rpcOk, fallback) ==
  LET r == createOrder(Stock, items, rpcOk, fallback)
  IN StockResult("createOrder", Len(items), r.st, r.err)

DeleteOrder(id) ==
  /\ \E o \in orders : o.id = id
  /\ StockResult("deleteOrder", 0, deleteOrder(Stock, id), "")

\* UPDATE order_items SET quantity = q WHERE id = id
UpdateOrderItem(id, q) ==
  /\ \E r \in order_items : r.id = id
  /\ LET old == CHOOSE r \in order_items : r.id = id
         new == [old EXCEPT !.quantity = q]
     IN StockResult("updateOrderItem", 0,
          OrderItemUpdated([Stock EXCEPT !.oitems = (@ \ {old}) \cup {new}],
                           old, new), "")

\* DELETE FROM order_items WHERE id = id
DeleteOrderItem(id) ==
  /\ \E r \in order_items : r.id = id
  /\ StockResult("deleteOrderItem", 0,
       DeleteOrderItems(Stock, {r \in order_items : r.id = id}), "")

AdjustInventory(p, change) ==
  LET r == adjustInventory(Stock, <<[product_id |-> p, quantity_change |-> change,
                                     type |-> "adjustment"]>>, 1)
  IN StockResult("adjustInventory", 0, r.st, r.err)

StockIn(p, q) ==
  LET r == stockIn(Stock, p, q) IN StockResult("stockIn", 0, r.st, r.err)

StockOut(p, q) ==
  LET r == stockOut(Stock, p, q) IN StockResult("stockOut", 0, r.st, r.err)

CreateInventory(p, q, r) ==
  LET x == createInventory(Stock, p, q, r)
  IN StockResult("createInventory", 0, x.st, x.err)

UpdateInventory(p, q, r) ==
  LET x == updateInventory(Stock, p, q, r)
  IN StockResult("updateInventory", 0, x.st, x.err)

DeleteInventory(p) ==
  StockResult("deleteInventory", 0, deleteInventory(Stock, p), "")

ConvertToOrder ==
  LET r == convertToOrder(DB, currentUser)
  IN /\ carts' = r.db.carts
     /\ cart_items' = r.db.items
     /\ ret' = Ret("convertToOrder", 0, 0, r.err)
     /\ UNCHANGED <<calls, guestVars, currentUser, products, stockVars>>

NextStock ==
  \/ \E items \in OrderLines, rpcOk \in BOOLEAN, fb \in 1..MaxOrderNumber :
       CreateOrder(items, rpcOk, fb)
  \/ \E id \in 1..MaxOrders : DeleteOrder(id)
  \/ \E id \in 1..(MaxOrders * MaxLines), q \in 1..MaxQty : UpdateOrderItem(id, q)
  \/ \E id \in 1..(MaxOrders * MaxLines) : DeleteOrderItem(id)
  \/ \E p \in StockProducts, c \in {0 - 1, 1} : AdjustInventory(p, c)
  \/ \E p \in StockProducts, q \in 1..MaxQty : StockIn(p, q)
  \/ \E p \in StockProducts, q \in 1..MaxQty : StockOut(p, q)
  \/ \E p \in StockProducts, q \in 0..MaxStock, r \in 0..MaxStock : CreateInventory(p, q, r)
  \/ \E p \in StockProducts, q \in 0..MaxStock, r \in 0..MaxStock : UpdateInventory(p, q, r)
  \/ \E p \in StockProducts : DeleteInventory(p)

SpecStock == Init /\ [][NextStock]_vars

\* the ledger from the start: every inventory row at quantity 0, reserved 0,
\* written only by adjustInventory and by the order-line trigger
InitLedger ==
  /\ now = 0
  /\ guest = NoCart
  /\ currentUser = Null
  /\ products = [p \in Products |-> [price |-> p, status |-> "active"]]
  /\ carts = {}
  /\ cart_items = {}
  /\ inventory = [p \in Products |-> InventoryRow(0, 0)]
  /\ inventory_transactions = <<>>
  /\ orders = {}
  /\ order_items = {}
  /\ discounts = {}
  /\ discount_usage = {}
  /\ calls = [t \in Tabs |-> NoCall]
  /\ ret = Ret("init", 0, 0, "")

NextLedger ==
  \/ \E items \in OrderLines, rpcOk \in BOOLEAN, fb \in 1..MaxOrderNumber :
       CreateOrder(items, rpcOk, fb)
  \/ \E id \in 1..MaxOrders : DeleteOrder(id)
  \/ \E id \in 1..(MaxOrders * MaxLines), q \in 1..MaxQty : UpdateOrderItem(id, q)
  \/ \E id \in 1..(MaxOrders * MaxLines) : DeleteOrderItem(id)
  \/ \E p \in StockProducts, c \in {0 - 1, 1} : AdjustInventory(p, c)
  \/ \E p \in StockProducts, q \in 1..MaxQty : StockIn(p, q)
  \/ \E p \in StockProducts, q \in 1..MaxQty : StockOut(p, q)

SpecLedger == InitLedger /\ [][NextLedger]_vars

\* UPDATE order_items SET product_id = p, quantity = q WHERE id = id
UpdateOrderItemProduct(id, p, q) ==
  /\ \E r \in order_items : r.id = id
  /\ LET old == CHOOSE r \in order_items : r.id = id
         new == [old EXCEPT !.product_id = p, !.quantity = q]
     IN StockResult("updateOrderItem", 0,
          OrderItemUpdated([Stock EXCEPT !.oitems = (@ \ {old}) \cup {new}],
                           old, new), "")

\* reserved written by nothing but the order-line trigger
NextReserved ==
  \/ \E items \in OrderLines, rpcOk \in BOOLEAN, fb \in 1..MaxOrderNumber :
       CreateOrder(items, rpcOk, fb)
  \/ \E id \in 1..MaxOrders : DeleteOrder(id)
  \/ \E id \in 1..(MaxOrders * MaxLines), p \in Products, q \in 1..MaxQty :
       UpdateOrderItemProduct(id, p, q)
  \/ \E id \in 1..(MaxOrders * MaxLines) : DeleteOrderItem(id)

SpecReserved == Init /\ [][NextReserved]_vars

\* checkout: a signed-in or anonymous caller fills a cart and orders
NextCheckout ==
  \/ \E items \in OrderLines, rpcOk \in BOOLEAN, fb \in 1..MaxOrderNumber :
       CreateOrder(items, rpcOk, fb)
  \/ \E id \in 1..MaxOrders : DeleteOrder(id)
  \/ ConvertToOrder
  \/ \E p \in Products, q \in QtyArgs : currentUser # Null /\ AddItem(p, q)
  \/ \E u \in Users : SignIn(u)
  \/ SignOut

SpecCheckout == Init /\ [][NextCheckout]_vars


\* CartController.applyDiscount: the discount amount it writes is the
\* literal 0, and no trigger follows an update of carts
applyCartDiscount(db, uid) ==
  LET c == getOrCreateCart(db, uid)
  IN IF c.err # "" THEN [db |-> c.db, err |-> c.err]
     ELSE LET d == [c.db EXCEPT !.carts =
                      {IF x.id = c.cart /\ CartVisible(x, uid)
                       THEN [x EXCEPT !.discount_amount = 0] ELSE x : x \in @}]
              r == getOrCreateCart(d, uid)
          IN [db |-> r.db, err |-> r.err]

ApplyCartDiscount ==
  CartResult("applyDiscount", 0, 0, applyCartDiscount(DB, currentUser))

\* the server cart on its own: a signed-in or anonymous caller of the
\* CartController handlers on the database
NextTotals ==
  \/ \E u \in Users : SignIn(u)
  \/ SignOut
  \/ \E p \in Products, q \in QtyArgs : currentUser # Null /\ AddItem(p, q)
  \/ \E id \in ItemIds, q \in QtyArgs :
       currentUser # Null /\ UpdateItemQuantity(id, q)
  \/ \E id \in ItemIds : currentUser # Null /\ RemoveItem(id)
  \/ ApplyCartDiscount
  \/ ConvertToOrder

SpecTotals == Init /\ [][NextTotals]_vars

\* ProductController.updateProduct with a price in updateData
updateProduct(ps, productId, price) == [ps EXCEPT ![productId].price = price]

UpdateProduct(p, price) ==
  /\ products' = updateProduct(products, p, price)
  /\ ret' = Ret("updateProduct", p, price, "")
  /\ UNCHANGED <<calls, guestVars, currentUser, cartVars, stockVars>>

\* carts while the catalogue changes its prices
NextPrice ==
  \/ \E p \in Products, q \in 1..MaxQty : AddItem(p, q)
  \/ \E id \in ItemIds, q \in 0..MaxQty : UpdateItemQuantity(id, q)
  \/ \E u \in Users : SignIn(u)
  \/ SignOut
  \/ \E p \in StockProducts, price \in 1..MaxPrice : UpdateProduct(p, price)

SpecPrice == Init /\ [][NextPrice]_vars

\* ------------------------------------------------------ DiscountController
\* createDiscount: UNIQUE(code), used_count: 0
\* usage_limit 0: discountData names no limit (the column is NULL)
createDiscount(st, code) ==
  IF \E d \in st.disc : d.code = code THEN [st |-> st, err |-> "duplicate key"]
  ELSE [st |-> [st EXCEPT !.disc = @ \cup {[id |-> FreshId(st.disc), code |-> code,
                                            status |-> "active", used_count |-> 0,
                                            usage_limit |-> 0]}],
        err |-> ""]

\* updateDiscount with a status in updateData; UpdateDiscountData has no
\* used_count
updateDiscount(st, discountId, status) ==
  IF ~\E d \in st.disc : d.id = discountId THEN [st |-> st, err |-> "no rows"]
  ELSE [st |-> [st EXCEPT !.disc = {IF d.id = discountId
                                    THEN [d EXCEPT !.status = status]
                                    ELSE d : d \in @}],
        err |-> ""]

\* deleteDiscount: discount_usage goes by ON DELETE CASCADE
deleteDiscount(st, discountId) ==
  DeleteDiscountUsage([st EXCEPT !.disc = {d \in @ : d.id # discountId}],
                      {r \in st.usage : r.discount_id = discountId})

\* applyDiscount: INSERT INTO discount_usage, its foreign keys and
\* UNIQUE(discount_id, order_id, user_id), then the trigger
applyDiscount(st, discountId, orderId, userId) ==
  IF \/ ~\E d \in st.disc : d.id = discountId
     \/ ~\E o \in st.orders : o.id = orderId
  THEN [st |-> st, err |-> "foreign key"]
  ELSE IF \E r \in st.usage : /\ r.discount_id = discountId
                              /\ r.order_id = orderId
                              /\ r.user_id = userId
  THEN [st |-> st, err |-> "duplicate key"]
  ELSE LET row == [id |-> FreshId(st.usage), discount_id |-> discountId,
                   order_id |-> orderId, user_id |-> userId]
       IN [st |-> DiscountUsageInserted([st EXCEPT !.usage = @ \cup {row}], row),
           err |-> ""]

DiscountStatuses == {"active", "inactive"}

CreateDiscount(code) ==
  LET r == createDiscount(Stock, code)
  IN StockResult("createDiscount", 0, r.st, r.err)

UpdateDiscount(id, status) ==
  LET r == updateDiscount(Stock, id, status)
  IN StockResult("updateDiscount", 0, r.st, r.err)

DeleteDiscount(id) ==
  /\ \E d \in discounts : d.id = id
  /\ StockResult("deleteDiscount", 0, deleteDiscount(Stock, id), "")

ApplyDiscount(d, o, u) ==
  LET r == applyDiscount(Stock, d, o, u)
  IN StockResult("applyDiscount", 0, r.st, r.err)

\* DELETE FROM discount_usage WHERE id = id
DeleteUsage(id) ==
  /\ \E r \in discount_usage : r.id = id
  /\ StockResult("deleteUsage", 0,
       DeleteDiscountUsage(Stock, {r \in discount_usage : r.id = id}), "")

NextDiscount ==
  \/ \E code \in 1..MaxDiscounts : CreateDiscount(code)
  \/ \E id \in 1..MaxDiscounts, status \in DiscountStatuses : UpdateDiscount(id, status)
  \/ \E id \in 1..MaxDiscounts : DeleteDiscount(id)
  \/ \E d \in 1..MaxDiscounts, o \in 1..MaxOrders, u \in Users : ApplyDiscount(d, o, u)
  \/ \E id \in 1..MaxUsage : DeleteUsage(id)
  \/ \E rpcOk \in BOOLEAN : CreateOrder(<<>>, rpcOk, MaxOrderNumber)
  \/ \E id \in 1..MaxOrders : DeleteOrder(id)

SpecDiscount == Init /\ [][NextDiscount]_vars


\* ------------------------------------------ createOrder, one await at a time
\* what a step of a call in flight leaves
CallStep(t, call, st) ==
  /\ calls' = [calls EXCEPT ![t] = call]
  /\ inventory' = st.inv
  /\ inventory_transactions' = st.tx
  /\ orders' = st.orders
  /\ order_items' = st.oitems
  /\ discounts' = st.disc
  /\ discount_usage' = st.usage
  /\ ret' = IF call.pc = "done" THEN Ret(call.op, t, call.i, call.err) ELSE ret
  /\ UNCHANGED <<guestVars, currentUser, products, cartVars>>

\* an order-number source that also counts the numbers other calls hold
BeginCreateOrderReserving(t, items, rpcOk, fallback) ==
  /\ calls[t].pc = "idle"
  /\ LET held == {calls[u].a : u \in {x \in Tabs : calls[x].pc = "order"}}
         taken == {o.order_number : o \in orders} \cup held \cup {0}
         n == CHOOSE x \in taken : \A y \in taken : y <= x
     IN CallStep(t, [NoCall EXCEPT !.op = "createOrder", !.pc = "order",
                       !.a = IF rpcOk THEN n + 1 ELSE fallback,
                       !.b = IF rpcOk THEN 1 ELSE 0, !.items = items], Stock)

\* createOrder up to its first await: generateOrderNumber has answered, by the
\* rpc (b = 1) or by the fallback (b = 0); a is the number the call holds
BeginCreateOrder(t, items, rpcOk, fallback) ==
  /\ calls[t].pc = "idle"
  /\ CallStep(t, [NoCall EXCEPT !.op = "createOrder", !.pc = "order",
                    !.a = IF rpcOk THEN generate_order_number(orders)
                          ELSE fallback,
                    !.b = IF rpcOk THEN 1 ELSE 0, !.items = items], Stock)

\* DatabaseService.create("orders"): the row, or the UNIQUE(order_number) error
InsertOrder(t) ==
  /\ calls[t].op = "createOrder" /\ calls[t].pc = "order"
  /\ LET call == calls[t]
         order == [id |-> FreshId(orders), order_number |-> call.a]
     IN IF \E o \in orders : o.order_number = call.a
        THEN CallStep(t, [call EXCEPT !.pc = "done", !.err = "duplicate key"],
                      Stock)
        ELSE CallStep(t, [call EXCEPT !.pc = "items", !.c = order.id, !.i = 1],
                      [Stock EXCEPT !.orders = @ \cup {order}])

\* an insert that takes the order back when a line is refused
InsertOrderLineAtomic(t, ok) ==
  /\ calls[t].op = "createOrder" /\ calls[t].pc = "items"
  /\ calls[t].i <= Len(calls[t].items)
  /\ LET call == calls[t]
         item == call.items[call.i]
     IN IF ok
        THEN CallStep(t, [call EXCEPT !.i = @ + 1],
               InsertOrderItem(Stock,
                 [id |-> FreshId(order_items), order_id |-> call.c,
                  product_id |-> item.product_id, quantity |-> item.quantity]))
        ELSE CallStep(t, [call EXCEPT !.pc = "done", !.err = "insert failed"],
                      deleteOrder(Stock, call.c))

\* DatabaseService.create("order_items") for line i of orderData.items; ok: the
\* database takes the row and the trigger runs, else the request is refused
\* and createOrder rethrows
InsertOrderLine(t, ok) ==
  /\ calls[t].op = "createOrder" /\ calls[t].pc = "items"
  /\ calls[t].i <= Len(calls[t].items)
  /\ LET call == calls[t]
         item == call.items[call.i]
     IN IF ok
        THEN CallStep(t, [call EXCEPT !.i = @ + 1],
               InsertOrderItem(Stock,
                 [id |-> FreshId(order_items), order_id |-> call.c,
                  product_id |-> item.product_id, quantity |-> item.quantity]))
        ELSE CallStep(t, [call EXCEPT !.pc = "done", !.err = "insert failed"],
                      Stock)

\* every line is in: getAllOrders, return order
ReturnOrder(t) ==
  /\ calls[t].op = "createOrder" /\ calls[t].pc = "items"
  /\ calls[t].i > Len(calls[t].items)
  /\ CallStep(t, [calls[t] EXCEPT !.pc = "done"], Stock)

\* the orders placed before the two calls start, numbered as the rpc numbers
InitOrders ==
  /\ now = 0
  /\ guest = NoCart
  /\ currentUser = Null
  /\ products = [p \in Products |-> [price |-> p, status |-> "active"]]
  /\ carts = {}
  /\ cart_items = {}
  /\ inventory = [p \in Products |-> InventoryRow(p, 0)]
  /\ inventory_transactions = <<>>
  /\ \E n \in 0..MaxOrders :
       orders = {[id |-> k, order_number |-> k] : k \in 1..n}
  /\ order_items = {}
  /\ discounts = {}
  /\ discount_usage = {}
  /\ calls = [t \in Tabs |-> NoCall]
  /\ ret = Ret("init", 0, 0, "")

NextOrders ==
  \/ \E t \in Tabs, items \in OrderLines, rpcOk \in BOOLEAN,
        fb \in 1..MaxOrderNumber : BeginCreateOrder(t, items, rpcOk, fb)
  \/ \E t \in Tabs : InsertOrder(t)
  \/ \E t \in Tabs, ok \in BOOLEAN : InsertOrderLine(t, ok)
  \/ \E t \in Tabs : ReturnOrder(t)

SpecOrders == InitOrders /\ [][NextOrders]_vars

\* ------------------------------------------- the guest cart alone: nobody
\* signs in, so every handler takes its localStorage branch
NextGuest ==
  \/ Tick
  \/ GetGuestCart
  \/ \E p \in Products, q \in QtyArgs : AddItem(p, q)
  \/ \E id \in ItemIds, q \in QtyArgs : UpdateItemQuantity(id, q)
  \/ \E id \in ItemIds : RemoveItem(id)
  \/ ClearCart

SpecGuest == Init /\ [][NextGuest]_vars

\* -------------------------------------------- addToCart, one await at a time
\* what a step of a call in flight on the cart tables leaves
CartCallStep(t, call, db) ==
  /\ calls' = [calls EXCEPT ![t] = call]
  /\ carts' = db.carts
  /\ cart_items' = db.items
  /\ ret' = IF call.pc = "done" THEN Ret(call.op, t, call.a, call.err) ELSE ret
  /\ UNCHANGED <<guestVars, currentUser, products, stockVars>>

\* addToCart up to the answer of getOrCreateCart: a, b the product and the
\* quantity asked for, c currentCart.id, i and d the id and the quantity of
\* existingItem (i = 0: currentCart.items holds no line of the product)
BeginAddToCart(t, productId, quantity) ==
  /\ calls[t].pc = "idle"
  /\ currentUser # Null
  /\ LET c == getOrCreateCart(DB, currentUser)
         mine == {it \in ItemsOf(c.db.items, c.cart) : it.product_id = productId}
         call == [NoCall EXCEPT !.op = "addToCart", !.a = productId,
                                !.b = quantity]
     IN IF c.err # ""
        THEN CartCallStep(t, [call EXCEPT !.pc = "done", !.err = c.err], c.db)
        ELSE IF mine # {}
        THEN LET existingItem == CHOOSE it \in mine : TRUE
             IN CartCallStep(t, [call EXCEPT !.pc = "write", !.c = c.cart,
                                             !.i = existingItem.id,
                                             !.d = existingItem.quantity], c.db)
        ELSE CartCallStep(t, [call EXCEPT !.pc = "write", !.c = c.cart], c.db)

\* the rest of addToCart: updateCartItem(existingItem.id, existingItem.quantity
\* + quantity) for a line it has seen, else the product checks and the insert
addToCartWrite(db, uid, call) ==
  IF call.i # 0 THEN updateCartItem(db, uid, call.i, call.d + call.b)
  ELSE IF products[call.a].status # "active"
  THEN [db |-> db, err |-> "Product is not available"]
  ELSE IF InsufficientInventory(call.a, call.b)
  THEN [db |-> db, err |-> "Insufficient inventory"]
  ELSE LET ins == InsertCartItem(db,
                    [id |-> FreshId(db.items), cart_id |-> call.c,
                     product_id |-> call.a, quantity |-> call.b,
                     unit_price |-> products[call.a].price,
                     total_price |-> products[call.a].price * call.b])
           r == getOrCreateCart(ins.db, uid)
       IN IF ins.err # "" THEN ins ELSE [db |-> r.db, err |-> r.err]

FinishAddToCart(t) ==
  /\ calls[t].op = "addToCart" /\ calls[t].pc = "write"
  /\ LET r == addToCartWrite(DB, currentUser, calls[t])
     IN CartCallStep(t, [calls[t] EXCEPT !.pc = "done", !.err = r.err], r.db)

\* a signed-in user with two tabs open, the stock ample; the user has no cart
\* yet, or a cart that is empty or holds n of product 1
InitCartTabs ==
  /\ now = 0
  /\ guest = NoCart
  /\ currentUser \in Users
  /\ products = [p \in Products |-> [price |-> p, status |-> "active"]]
  /\ \E hasCart \in BOOLEAN, n \in 0..MaxQty :
       /\ hasCart \/ n = 0
       /\ LET cart == NewCartRow([carts |-> {}, items |-> {}], currentUser)
              line == [id |-> 1, cart_id |-> cart.id, product_id |-> 1,
                       quantity |-> n, unit_price |-> products[1].price,
                       total_price |-> products[1].price * n]
              db == update_cart_totals(
                      [carts |-> {cart},
                       items |-> IF n = 0 THEN {} ELSE {line}], cart.id)
          IN /\ carts = IF hasCart THEN db.carts ELSE {}
             /\ cart_items = IF hasCart THEN db.items ELSE {}
  /\ inventory = [p \in Products |-> InventoryRow(3 * MaxQty, 0)]
  /\ inventory_transactions = <<>>
  /\ orders = {}
  /\ order_items = {}
  /\ discounts = {}
  /\ discount_usage = {}
  /\ calls = [t \in Tabs |-> NoCall]
  /\ ret = Ret("init", 0, 0, "")

NextCartTabs ==
  \/ \E t \in Tabs, p \in Products, q \in 1..MaxQty : BeginAddToCart(t, p, q)
  \/ \E t \in Tabs : FinishAddToCart(t)

SpecCartTabs == InitCartTabs /\ [][NextCartTabs]_vars

\* ------------------------------------- adjustInventory, one await at a time
\* adjustInventory with one adjustment, up to the answer of its select: a the
\* product, b quantity_change, c the quantity of the row it read
BeginAdjust(t, op, p, change) ==
  /\ calls[t].pc = "idle"
  /\ LET call == [NoCall EXCEPT !.op = op, !.a = p, !.b = change]
     IN IF ~inventory[p].present
        THEN CallStep(t, [call EXCEPT !.pc = "done", !.err = "no rows"], Stock)
        ELSE CallStep(t, [call EXCEPT !.pc = "update",
                                      !.c = inventory[p].quantity], Stock)

BeginAdjustInventory(t, p, change) ==
  BeginAdjust(t, "adjustInventory", p, change)

\* stockIn: adjustInventory with quantity_change = quantity, type 'in'
BeginStockIn(t, p, quantity) == BeginAdjust(t, "stockIn", p, quantity)

\* stockOut: adjustInventory with quantity_change = -quantity, type 'out'
BeginStockOut(t, p, quantity) == BeginAdjust(t, "stockOut", p, 0 - quantity)

\* update({ quantity: newQuantity }).eq("product_id", ...).single(), with
\* newQuantity = currentInventory.quantity + adjustment.quantity_change
WriteAdjustedQuantity(t) ==
  /\ calls[t].op \in {"adjustInventory", "stockIn", "stockOut"}
  /\ calls[t].pc = "update"
  /\ LET call == calls[t]
     IN IF ~inventory[call.a].present
        THEN CallStep(t, [call EXCEPT !.pc = "done", !.err = "no rows"], Stock)
        ELSE CallStep(t, [call EXCEPT !.pc = "log"],
               [Stock EXCEPT !.inv[call.a] =
                  SetInventory(@, call.c + call.b, @.reserved)])

\* insert into inventory_transactions, getAllInventory, return results
LogAdjustment(t) ==
  /\ calls[t].op \in {"adjustInventory", "stockIn", "stockOut"}
  /\ calls[t].pc = "log"
  /\ LET call == calls[t]
         type == IF call.op = "stockIn" THEN "in"
                 ELSE IF call.op = "stockOut" THEN "out" ELSE "adjustment"
     IN CallStep(t, [call EXCEPT !.pc = "done"],
          [Stock EXCEPT !.tx = LogTransaction(@, call.a, type,
                                 IF call.b < 0 THEN 0 - call.b ELSE call.b,
                                 "adjustment")])

NextAdjust ==
  \/ \E t \in Tabs, p \in Products, c \in {0 - 1, 1} :
       BeginAdjustInventory(t, p, c)
  \/ \E t \in Tabs, p \in Products, q \in 1..MaxQty : BeginStockIn(t, p, q)
  \/ \E t \in Tabs, p \in Products, q \in 1..MaxQty : BeginStockOut(t, p, q)
  \/ \E t \in Tabs : WriteAdjustedQuantity(t)
  \/ \E t \in Tabs : LogAdjustment(t)

SpecAdjust == Init /\ [][NextAdjust]_vars

\* -------------------------- checkout with a discount code, from two tabs
\* validateDiscountCode up to its answer: getDiscountByCode selects the
\* active discount of that code, valid_until ahead (discounts carry no
\* minimum_amount and are not one_time_use); valid = 1 with the discount's id
validateDiscountCode(st, code) ==
  LET found == {d \in st.disc : d.code = code /\ d.status = "active"}
  IN IF Cardinality(found) # 1
     THEN [valid |-> 0, discount |-> 0, error |-> "Invalid discount code"]
     ELSE LET discount == CHOOSE d \in found : TRUE
          IN IF discount.usage_limit # 0
                /\ discount.used_count >= discount.usage_limit
             THEN [valid |-> 0, discount |-> 0,
                   error |-> "Discount code has reached usage limit"]
             ELSE [valid |-> 1, discount |-> discount.id, error |-> ""]

\* a checkout validates the code for its order (a the discount, b the order)
ValidateDiscountCode(t, code) ==
  /\ calls[t].pc \in {"idle", "done"}
  /\ LET v == validateDiscountCode(Stock, code)
         call == [NoCall EXCEPT !.op = "checkout", !.a = v.discount, !.b = t,
                                !.c = v.valid]
     IN IF v.valid = 1
        THEN CallStep(t, [call EXCEPT !.pc = "apply"], Stock)
        ELSE CallStep(t, [call EXCEPT !.pc = "done", !.err = v.error], Stock)

\* the checkout applies the discount it validated to its order
ApplyValidatedDiscount(t, u) ==
  /\ calls[t].op = "checkout" /\ calls[t].pc = "apply"
  /\ LET r == applyDiscount(Stock, calls[t].a, calls[t].b, u)
     IN CallStep(t, [calls[t] EXCEPT !.pc = "done", !.err = r.err], r.st)

\* one order per tab, and the discounts with their usage limits (0: none)
InitCheckoutTabs ==
  /\ now = 0
  /\ guest = NoCart
  /\ currentUser \in Users
  /\ products = [p \in Products |-> [price |-> p, status |-> "active"]]
  /\ carts = {}
  /\ cart_items = {}
  /\ inventory = [p \in Products |-> InventoryRow(p, 0)]
  /\ inventory_transactions = <<>>
  /\ orders = {[id |-> t, order_number |-> t] : t \in Tabs}
  /\ order_items = {}
  /\ \E limit \in [1..MaxDiscounts -> 0..MaxUsage] :
       discounts = {[id |-> k, code |-> k, status |-> "active",
                     used_count |-> 0, usage_limit |-> limit[k]] :
                    k \in 1..MaxDiscounts}
  /\ discount_usage = {}
  /\ calls = [t \in Tabs |-> NoCall]
  /\ ret = Ret("init", 0, 0, "")

NextCheckoutTabs ==
  \/ \E t \in Tabs, code \in 1..MaxDiscounts : ValidateDiscountCode(t, code)
  \/ \E t \in Tabs : ApplyValidatedDiscount(t, currentUser)

SpecCheckoutTabs == InitCheckoutTabs /\ [][NextCheckoutTabs]_vars

\* ------------------------------------------------------------------ claims
\* the lines getGuestCart would return now
GuestLines == getGuestCart(guest, now).items

\* the lines of user u's server cart
UserLines(u) ==
  {it \in cart_items : \E c \in carts : c.id = it.cart_id /\ c.user_id = u}

\* a step in which signIn ran the login merge and the merge returned
MergeReturned(u) ==
  /\ currentUser = Null
  /\ currentUser' = u
  /\ ret'.op = "signIn"
  /\ ret'.err = ""

\* C1: when the user's cart holds product p with quantity u >= 1 and the guest
\* cart holds p with quantity g >= 1, a login merge that returns leaves the user's
\* cart with exactly one line for p, of quantity u + g.
C1_MergeAddsQuantities ==
  [][\A u \in Users, p \in Products :
       (/\ MergeReturned(u)
        /\ \E it \in UserLines(u) : it.product_id = p /\ it.quantity >= 1
        /\ \E i \in 1..Len(GuestLines) :
             GuestLines[i].product_id = p /\ GuestLines[i].quantity >= 1)
       => LET old == CHOOSE it \in UserLines(u) : it.product_id = p
              g == GuestLines[FindIndexByProduct(GuestLines, p)]
          IN /\ Cardinality({it \in UserLines(u)' : it.product_id = p}) = 1
             /\ \A it \in UserLines(u)' :
                  it.product_id = p => it.quantity = old.quantity + g.quantity
    ]_vars

\* C2: when the user's cart has no lines and the guest cart has lines of
\* quantity >= 1, a login merge that returns leaves
\* the user's cart with one line per guest line, with the guest quantity, and
\* the guest cart reads as empty.
C2_MergeIntoEmptyCart ==
  [][\A u \in Users :
       (/\ MergeReturned(u)
        /\ UserLines(u) = {}
        /\ Len(GuestLines) > 0
        /\ \A i \in 1..Len(GuestLines) : GuestLines[i].quantity >= 1)
       => /\ \A i \in 1..Len(GuestLines) :
               Cardinality({it \in UserLines(u)' :
                              /\ it.product_id = GuestLines[i].product_id
                              /\ it.quantity = GuestLines[i].quantity}) = 1
          /\ Cardinality(UserLines(u)') = Len(GuestLines)
          /\ GuestLines' = <<>>
    ]_vars


\* C3: every server cart's stored subtotal is the sum over its lines of
\* quantity * unit_price, and every line's total_price is unit_price * quantity.
C3_SubtotalIsSumOfLines ==
  /\ \A it \in cart_items : it.total_price = it.unit_price * it.quantity
  /\ \A c \in carts :
       c.subtotal = SumOver(ItemsOf(cart_items, c.id),
                            [it \in cart_items |-> it.quantity * it.unit_price])

\* a quantity update has left a cart with two lines and a positive subtotal
C3_Witness ==
  /\ ret.op = "updateItemQuantity"
  /\ ret.err = ""
  /\ ret.b >= 1
  /\ \E c \in carts : /\ Cardinality(ItemsOf(cart_items, c.id)) = 2
                      /\ c.subtotal > 0
                      /\ \E it \in ItemsOf(cart_items, c.id) :
                           it.id = ret.a /\ it.quantity = ret.b

\* the handlers C4 names
C4_Ops == {"createOrder", "updateOrderItem", "deleteOrderItem", "deleteOrder",
           "stockIn", "stockOut", "adjustInventory", "updateInventory"}

ReservedWithinQuantity ==
  \A p \in Products : inventory[p].present =>
    inventory[p].reserved <= inventory[p].quantity

\* C4: an order-line insert, update or delete or an inventory adjustment
\* that starts with reserved <= quantity on every inventory row leaves
\* reserved <= quantity on every row.
C4_ReservedNeverExceedsQuantity ==
  [][(ReservedWithinQuantity /\ ret'.op \in C4_Ops) => ReservedWithinQuantity']_vars

\* C5: every inventory row has available = quantity - reserved.
C5_AvailableIsDerived ==
  \A p \in Products : inventory[p].present =>
    inventory[p].available = inventory[p].quantity - inventory[p].reserved

\* an order line has reserved stock of a row whose quantity was adjusted
C5_Witness ==
  /\ ret.op \in {"createOrder", "stockIn", "adjustInventory", "updateInventory"}
  /\ ret.err = ""
  /\ \E p \in Products : /\ inventory[p].present
                         /\ inventory[p].reserved > 0
                         /\ inventory[p].quantity > 1
                         /\ inventory[p].available # inventory[p].quantity
  /\ Len(inventory_transactions) > 0


\* no two lines of the guest cart and no two lines of one server cart carry
\* the same product
NoDuplicateLines ==
  /\ \A i, j \in 1..Len(guest.items) :
       guest.items[i].product_id = guest.items[j].product_id => i = j
  /\ \A x, y \in cart_items :
       (x.cart_id = y.cart_id /\ x.product_id = y.product_id) => x = y

\* an add of q >= 1 of a product the caller's cart already holds with a
\* quantity >= 1, which returns, leaves as many lines as before and that line
\* with q more
AddIncrementsLine ==
  (/\ ret'.op = "addItem"
   /\ ret'.err = ""
   /\ ret'.b >= 1)
  => /\ (currentUser = Null =>
           \A i \in 1..Len(GuestLines) :
             (GuestLines[i].product_id = ret'.a /\ GuestLines[i].quantity >= 1) =>
               /\ Len(GuestLines') = Len(GuestLines)
               /\ GuestLines'[i].product_id = ret'.a
               /\ GuestLines'[i].quantity = GuestLines[i].quantity + ret'.b)
     /\ (currentUser # Null =>
           \A it \in UserLines(currentUser) :
             (it.product_id = ret'.a /\ it.quantity >= 1) =>
               /\ Cardinality(UserLines(currentUser)') =
                    Cardinality(UserLines(currentUser))
               /\ \E n \in UserLines(currentUser)' :
                    /\ n.id = it.id
                    /\ n.product_id = ret'.a
                    /\ n.quantity = it.quantity + ret'.b)

\* C6: no cart, guest or server, ever holds two lines of one product, and
\* adding q >= 1 of a product the cart already holds with a quantity >= 1
\* increases that line's quantity by q instead of creating a second line.
C6_OneLinePerProduct == []NoDuplicateLines /\ [][AddIncrementsLine]_vars

\* one more of a product was added to a two-line guest cart that held one of it
C6_Witness ==
  /\ ret.op = "addItem"
  /\ ret.b = 1
  /\ currentUser = Null
  /\ Len(GuestLines) = 2
  /\ \E i \in 1..2 : GuestLines[i].product_id = ret.a /\ GuestLines[i].quantity = 2

\* C7: updating a line of the guest cart or of the signed-in user's cart to
\* a quantity q <= 0 returns without error and leaves the cart without that
\* line and with every other line as it was.
C7_NonPositiveUpdateRemoves ==
  [][(ret'.op = "updateItemQuantity" /\ ret'.b <= 0)
     => /\ (/\ currentUser = Null
            /\ \E i \in 1..Len(GuestLines) : GuestLines[i].id = ret'.a)
           => /\ ret'.err = ""
              /\ GuestLines' = SelectSeq(GuestLines, LAMBDA it : it.id # ret'.a)
        /\ (/\ currentUser # Null
            /\ \E it \in UserLines(currentUser) : it.id = ret'.a)
           => /\ ret'.err = ""
              /\ UserLines(currentUser)' =
                   {it \in UserLines(currentUser) : it.id # ret'.a}
    ]_vars

\* line 1 of a guest cart was updated to zero and line 2 is what is left
C7_Witness ==
  /\ ret.op = "updateItemQuantity"
  /\ ret.b <= 0
  /\ ret.err = ""
  /\ ret.a = 1
  /\ currentUser = Null
  /\ Len(GuestLines) = 1
  /\ GuestLines[1].id = 2

\* C8: every line of the guest cart and of every server cart has
\* quantity >= 1.
C8_QuantityAtLeastOne ==
  /\ \A i \in 1..Len(guest.items) : guest.items[i].quantity >= 1
  /\ \A it \in cart_items : it.quantity >= 1

\* the lines of the cart convertToOrder reads for the caller
CallerLines ==
  {it \in cart_items : \E c \in FoundCarts(DB, currentUser) : c.id = it.cart_id}

\* C9: convertToOrder on a cart without lines and createOrder with an empty
\* item list throw 'Cart is empty' and leave orders, order lines, inventory and
\* the inventory ledger as they were.
C9_EmptyCartOrderFails ==
  [][(\/ (ret'.op = "convertToOrder" /\ CallerLines = {})
      \/ (ret'.op = "createOrder" /\ ret'.a = 0))
     => /\ ret'.err = "Cart is empty"
        /\ UNCHANGED stockVars
    ]_vars

\* a read of the guest cart past its expiry returns nothing and removes it
ExpiredReadClears ==
  (ret'.op = "getGuestCart" /\ guest.present /\ now > guest.expiry)
  => (ret'.a = 0 /\ guest' = NoCart)

\* a guest cart that reads as empty reads as empty until an item is added
EmptyUntilAdd ==
  (GuestLines = <<>> /\ ret'.op # "addItem") => GuestLines' = <<>>

\* a read of the guest cart before its expiry returns every line and keeps it
UnexpiredReadReturnsAll ==
  (ret'.op = "getGuestCart" /\ guest.present /\ now <= guest.expiry)
  => (ret'.a = Len(guest.items) /\ GuestLines = guest.items /\ guest' = guest)

\* C10: getGuestCart on a cart whose expiry is past returns an empty list and
\* removes the stored cart, later reads return empty until an item is added,
\* and a cart whose expiry is not reached is returned with all its lines.
C10_ExpiredCartIsCleared ==
  [][ExpiredReadClears /\ EmptyUntilAdd /\ UnexpiredReadReturnsAll]_vars

\* a read has just discarded an expired guest cart
C10_Witness ==
  /\ ret.op = "getGuestCart"
  /\ ret.a = 0
  /\ ret.b = 1
  /\ guest = NoCart
  /\ now > CART_EXPIRY_DAYS


\* C11: no two stored orders have the same order_number, whether the number
\* came from generate_order_number or from the client-side fallback.
C11_OrderNumbersUnique ==
  \A o1, o2 \in orders : o1.order_number = o2.order_number => o1 = o2

\* a createOrder whose number collided with a stored order was rejected while
\* two orders with different numbers are stored
C11_Witness ==
  /\ ret.op = "createOrder"
  /\ ret.err = "duplicate key"
  /\ Cardinality(orders) = 2
  /\ Cardinality({o.order_number : o \in orders}) = 2


\* what the ledger rows of product p say its quantity is: in adds, out
\* subtracts, an adjustment of reference_type adjustment adds what it stores
LedgerQuantity(p) ==
  SumOver(1..Len(inventory_transactions),
    [i \in 1..Len(inventory_transactions) |->
       LET t == inventory_transactions[i]
       IN IF t.product_id # p THEN 0
          ELSE IF t.type = "in" THEN t.quantity
          ELSE IF t.type = "out" THEN 0 - t.quantity
          ELSE IF t.type = "adjustment" /\ t.reference_type = "adjustment"
          THEN t.quantity
          ELSE 0])

\* what the ledger rows of product p say its reserved is: reserved adds,
\* unreserved subtracts, an adjustment of reference_type order adds its delta
LedgerReserved(p) ==
  SumOver(1..Len(inventory_transactions),
    [i \in 1..Len(inventory_transactions) |->
       LET t == inventory_transactions[i]
       IN IF t.product_id # p THEN 0
          ELSE IF t.type = "reserved" THEN t.quantity
          ELSE IF t.type = "unreserved" THEN 0 - t.quantity
          ELSE IF t.type = "adjustment" /\ t.reference_type = "order"
          THEN t.quantity
          ELSE 0])

\* C12: for a product whose inventory row started at quantity 0, reserved 0
\* and was written only by adjustments and the order-line trigger, the signed
\* sum of its ledger rows equals its current quantity and reserved.
C12_LedgerReconciles ==
  \A p \in Products : inventory[p].present =>
    /\ inventory[p].quantity = LedgerQuantity(p)
    /\ inventory[p].reserved = LedgerReserved(p)


\* C13: each discount's used_count equals the number of discount_usage rows
\* that reference it.
C13_UsedCountTracksUsage ==
  \A d \in discounts :
    d.used_count = Cardinality({r \in discount_usage : r.discount_id = d.id})

\* an order whose usage row counted towards a discount has been deleted and
\* the discount is left with one usage row of the other order
C13_Witness ==
  /\ ret.op = "deleteOrder"
  /\ Cardinality(orders) = 1
  /\ \E d \in discounts :
       /\ d.used_count = 1
       /\ \E r \in discount_usage : r.discount_id = d.id /\ r.id = 2
  /\ Cardinality(discount_usage) = 1


\* C14: every server cart has
\* total_amount = subtotal + tax_amount + shipping_amount - discount_amount.
C14_TotalFormula ==
  \A c \in carts :
    c.total_amount = c.subtotal + c.tax_amount + c.shipping_amount - c.discount_amount

\* applyDiscount has written the discount of a cart that holds lines
C14_Witness ==
  /\ ret.op = "applyDiscount"
  /\ ret.err = ""
  /\ \E c \in carts : /\ c.user_id = currentUser
                      /\ c.subtotal > 0
                      /\ c.total_amount = c.subtotal
                      /\ ItemsOf(cart_items, c.id) # {}

\* C15: every server cart row has exactly one of user_id and session_id
\* populated.
C15_ExactlyOneOwner ==
  \A c \in carts : (c.user_id # Null) # (c.session_id # Null)


\* a line that is in the cart before and after a step keeps its unit price
LinePriceKept ==
  /\ \A i \in 1..Len(GuestLines), j \in 1..Len(GuestLines') :
       GuestLines[i].id = GuestLines'[j].id => GuestLines'[j].price = GuestLines[i].price
  /\ \A x \in cart_items, y \in cart_items' :
       (x.id = y.id /\ x.cart_id = y.cart_id) => y.unit_price = x.unit_price

\* a guest line of a product the user's cart lacks is in the user's cart
\* after the login merge, at the price the guest line carries
MergeKeepsGuestPrice ==
  \A u \in Users :
    MergeReturned(u) =>
      \A i \in 1..Len(GuestLines) :
        (/\ GuestLines[i].quantity >= 1
         /\ ~\E it \in UserLines(u) : it.product_id = GuestLines[i].product_id)
        => \E it \in UserLines(u)' :
             /\ it.product_id = GuestLines[i].product_id
             /\ it.unit_price = GuestLines[i].price

\* C16: a cart line keeps the unit price it was added at through quantity
\* updates and product price changes, and the login merge persists a guest
\* line with the price captured when the guest added it.
C16_PriceAtAddKept == [][LinePriceKept /\ MergeKeepsGuestPrice]_vars

\* no step changes the unit price of a line that stays in its cart
LinePriceKeptAlways == [][LinePriceKept]_vars


\* C17: clearCart returns; for a signed-in user it leaves the user's server
\* cart without lines and with subtotal 0, for a guest it leaves the guest
\* cart empty.
C17_ClearCartTerminates ==
  [][ret'.op = "clearCart"
     => /\ ret'.err = ""
        /\ (currentUser # Null =>
              /\ UserLines(currentUser)' = {}
              /\ \A c \in carts' : c.user_id = currentUser => c.subtotal = 0)
        /\ (currentUser = Null => GuestLines' = <<>>)
    ]_vars

\* a step in which signIn ran the login merge for user u, whether the merge
\* returned or threw
MergeRan(u) ==
  /\ currentUser = Null
  /\ currentUser' = u
  /\ ret'.op = "signIn"

\* C18: a login merge that runs on a guest cart with lines of quantity >= 1
\* has deleted the guest cart by the time it returns or throws.
C18_GuestCartDeletedAfterMerge ==
  [][\A u \in Users :
       (/\ MergeRan(u)
        /\ Len(GuestLines) > 0
        /\ \A i \in 1..Len(GuestLines) : GuestLines[i].quantity >= 1)
       => guest' = NoCart
    ]_vars

\* the guest lines whose insert into an empty user cart the inventory check
\* of addToCart rejects
Rejected(i) ==
  InsufficientInventory(GuestLines[i].product_id, GuestLines[i].quantity)

C20_ReservedIsSumOfLines ==
  \A p \in Products : inventory[p].present =>
    inventory[p].reserved =
      SumOver({r \in order_items : r.product_id = p},
              [r \in order_items |-> r.quantity])

\* C21: two createOrder calls that both hold a number from
\* generate_order_number, neither having inserted its order row yet, hold the
\* same number: the next one after the largest number stored
C21_ConcurrentOrdersSameNumber ==
  \A t \in Tabs : \A u \in Tabs \ {t} :
    /\ calls[t].op = "createOrder" /\ calls[t].pc = "order" /\ calls[t].b = 1
    /\ calls[u].op = "createOrder" /\ calls[u].pc = "order" /\ calls[u].b = 1
    => /\ calls[t].a = calls[u].a
       /\ calls[t].a = generate_order_number(orders)

\* both calls hold a number from the rpc over a table that has orders in it
C21_Witness ==
  /\ orders # {}
  /\ \A t \in Tabs : /\ calls[t].op = "createOrder" /\ calls[t].pc = "order"
                     /\ calls[t].b = 1 /\ calls[t].a > 1

\* C22: every step that changes the quantity or the reserved value of an
\* inventory row appends a row for that product to inventory_transactions
C22_EveryChangeIsLogged ==
  [][\A p \in Products :
       /\ inventory[p].present /\ inventory'[p].present
       /\ \/ inventory'[p].quantity # inventory[p].quantity
          \/ inventory'[p].reserved # inventory[p].reserved
       => \E i \in (Len(inventory_transactions) + 1)..Len(inventory_transactions') :
            inventory_transactions'[i].product_id = p]_vars

\* the step in which the createOrder call of tab t gives up on a refused line
LineRefused(t) ==
  /\ calls[t].op = "createOrder" /\ calls[t].pc = "items"
  /\ calls'[t].pc = "done" /\ calls'[t].err # ""

\* C23: when the insert of line k of a createOrder call is refused, the order
\* row and its first k-1 lines stay stored, with the reservations and the
\* ledger rows their inserts made, and the call ends with the error
C23_PartialOrderStays ==
  [][\A t \in Tabs : LineRefused(t) =>
       /\ ret'.op = "createOrder" /\ ret'.err = calls'[t].err
       /\ \E o \in orders' : o.id = calls[t].c
       /\ Cardinality({r \in order_items' : r.order_id = calls[t].c})
            = calls[t].i - 1
       /\ \A k \in 1..(calls[t].i - 1) :
            \E r \in order_items' :
              /\ r.order_id = calls[t].c
              /\ r.product_id = calls[t].items[k].product_id
              /\ r.quantity = calls[t].items[k].quantity
       /\ \A p \in Products :
            inventory'[p].reserved =
              SumOver({r \in order_items' : r.product_id = p},
                      [r \in order_items' |-> r.quantity])
       /\ Len(inventory_transactions') = Cardinality(order_items')]_vars

\* a createOrder call has ended on its refused second line, its first line stored
C23_Witness ==
  \E t \in Tabs :
    /\ calls[t].op = "createOrder" /\ calls[t].pc = "done"
    /\ calls[t].err = "insert failed" /\ calls[t].i = 2
    /\ ret.err = "insert failed"
    /\ \E r \in order_items : r.order_id = calls[t].c
    /\ inventory[1].reserved > 0

\* the quantity the caller's server cart holds of product p, 0 without a line
HeldQuantity(p) ==
  SumOver({it \in UserLines(currentUser) : it.product_id = p},
          [it \in cart_items |-> it.quantity])

\* a signed-in addItem or updateItemQuantity step asking for a line quantity
\* of at least 1 that is more than the product's available stock
AsksBeyondStock ==
  /\ currentUser # Null
  /\ \/ /\ ret'.op = "addItem" /\ ret'.b >= 1
        /\ inventory[ret'.a].present
        /\ HeldQuantity(ret'.a) + ret'.b > inventory[ret'.a].available
     \/ /\ ret'.op = "updateItemQuantity" /\ ret'.b >= 1
        /\ \E it \in UserLines(currentUser) :
             /\ it.id = ret'.a
             /\ inventory[it.product_id].present
             /\ ret'.b > inventory[it.product_id].available

UnknownIdUpdate ==
  /\ ret'.op = "updateItemQuantity" /\ ret'.b >= 1
  /\ \A i \in 1..Len(guest.items) : guest.items[i].id # ret'.a

\* a guest-cart step that changed localStorage, or that was an add, a remove,
\* a clear or an update of a line the cart holds, dispatched cartUpdated
ChangeBroadcasts ==
  (\/ guest' # guest
   \/ ret'.op \in {"addItem", "removeItem", "clearCart"}
   \/ /\ ret'.op = "updateItemQuantity"
      /\ \/ ret'.b <= 0
         \/ \E i \in 1..Len(GuestLines) : GuestLines[i].id = ret'.a)
  => ret'.ev >= 1

\* after an add, an update or a remove the blob holds the whole list: the
\* lines the cart had, with the one change
BlobIsComplete ==
  /\ ret'.op = "addItem" =>
       /\ guest'.present
       /\ \A i \in 1..Len(GuestLines) :
            /\ i <= Len(guest'.items)
            /\ guest'.items[i] =
                 IF GuestLines[i].product_id = ret'.a
                 THEN [GuestLines[i] EXCEPT !.quantity = @ + ret'.b]
                 ELSE GuestLines[i]
       /\ Len(guest'.items) =
            IF \E i \in 1..Len(GuestLines) : GuestLines[i].product_id = ret'.a
            THEN Len(GuestLines) ELSE Len(GuestLines) + 1
       /\ \E i \in 1..Len(guest'.items) : guest'.items[i].product_id = ret'.a
  /\ (/\ ret'.op = "updateItemQuantity" /\ ret'.b >= 1
      /\ \E i \in 1..Len(GuestLines) : GuestLines[i].id = ret'.a) =>
       /\ guest'.present
       /\ Len(guest'.items) = Len(GuestLines)
       /\ \A i \in 1..Len(GuestLines) :
            guest'.items[i] = IF GuestLines[i].id = ret'.a
                              THEN [GuestLines[i] EXCEPT !.quantity = ret'.b]
                              ELSE GuestLines[i]
  /\ (\/ ret'.op = "removeItem"
      \/ ret'.op = "updateItemQuantity" /\ ret'.b <= 0) =>
       /\ guest'.present
       /\ guest'.items = SelectSeq(GuestLines, LAMBDA it : it.id # ret'.a)

C28_ConcurrentAddsBothCount ==
  \A t \in Tabs : \A u \in Tabs \ {t} :
    (/\ calls[t].op = "addToCart" /\ calls[t].pc = "done"
     /\ calls[u].op = "addToCart" /\ calls[u].pc = "done"
     /\ calls[t].a = calls[u].a)
    => /\ calls[t].err = "" /\ calls[u].err = ""
       /\ Cardinality({it \in UserLines(currentUser) :
                         it.product_id = calls[t].a}) = 1
       /\ \A it \in UserLines(currentUser) :
            it.product_id = calls[t].a =>
              it.quantity = (IF calls[t].d <= calls[u].d THEN calls[t].d
                             ELSE calls[u].d) + calls[t].b + calls[u].b

\* C29: when two adjustInventory, stockIn or stockOut calls on one product
\* have both returned without error, however their requests interleaved, the
\* quantity is what the first of them read plus both requested changes
C29_NoAdjustmentLost ==
  \A t \in Tabs : \A u \in Tabs \ {t} :
    (/\ calls[t].op \in {"adjustInventory", "stockIn", "stockOut"}
     /\ calls[u].op \in {"adjustInventory", "stockIn", "stockOut"}
     /\ calls[t].pc = "done" /\ calls[t].err = ""
     /\ calls[u].pc = "done" /\ calls[u].err = ""
     /\ calls[t].a = calls[u].a)
    => \/ inventory[calls[t].a].quantity = calls[t].c + calls[t].b + calls[u].b
       \/ inventory[calls[t].a].quantity = calls[u].c + calls[t].b + calls[u].b

\* C30: with every applyDiscount preceded by a validateDiscountCode that
\* answered valid, used_count of a discount with a usage limit never exceeds
\* the limit
C30_UsedCountWithinLimit ==
  \A d \in discounts : d.usage_limit # 0 => d.used_count <= d.usage_limit

=============================================================================
